---- MODULE Spec2Model ----
(***************************************************************************)
(* Planeet planning service: the itinerary generation engine.              *)
(*                                                                         *)
(*   planning_service/app/services/plan_generator.py   plan assembler      *)
(*   planning_service/app/services/time_calculator.py  sequencer, timetable*)
(*   planning_service/app/services/personalization.py  scorer              *)
(*                                                                         *)
(* Instants are seconds since midnight of day 0, distances are hundredths  *)
(* of a kilometre (calculate_distance rounds to 2 decimals), ratings are   *)
(* tenths of a star.                                                       *)
(***************************************************************************)
EXTENDS Integers, Sequences, FiniteSets, TLC

VARIABLES
    \* ---- plan_generator.py: one generate_multiple_plans call ----
    pc,                       \* position inside generate_multiple_plans
    venues_by_type,           \* dict in insertion order: <<[venue_type, venues]>>
    input_pool,               \* venues_by_type as it was passed in
    max_venues,               \* plan_request.max_venues
    date,                     \* plan_request.date
    group_size,               \* plan_request.group_size
    used_venues,              \* set of venue ids already placed
    all_plans,                \* plans appended so far
    plan_index,               \* loop variable of the windowed pass
    error,                    \* exception leaving generate_multiple_plans
    result,                   \* returned plans
    \* ---- time_calculator.py: one calculate_plan_timing call ----
    tc_pc,
    tc_venues,                \* venues argument (ordered stops)
    tc_start,                 \* start_datetime argument
    tc_group,                 \* group_size argument
    tc_timed,                 \* returned timed_venues
    tc_warnings,              \* "may be closed" warnings logged by the call
    \* ---- time_calculator.py: one optimize_venue_order call ----
    sq_pc,
    sq_entry,                 \* the method called
    sq_venues,                \* venues argument
    sq_start,                 \* start_time argument
    sq_optimized,             \* optimized: the list being reordered
    sq_i,                     \* loop variable of "for i in range(len - 1)"
    sq_improved,              \* improved
    sq_penalty,               \* last calculate_type_conflict_penalty call:
                              \* <<venue1, venue2, value returned>>
    \* ---- personalization.py: one scoring call ----
    ps_pc,
    ps_venues_by_type,        \* candidate venues grouped by type
    ps_history,               \* user_rating_history: venue id -> rating (tenths)
    ps_prefs,                 \* user_preferences: None, {} or a dict
    ps_type_preferences,      \* type_preferences used by the call
    ps_scores,                \* scores produced by the call
    \* ---- plan_generator.py: two concurrent generate_multiple_plans calls ----
    rq,                       \* per request: its arguments, locals and position
    rng,                      \* state of the process-wide random module
    \* ---- booking_service.py: concurrent bookings on one venue ----
    db_slots,                 \* time_slots of the venue document in the database
    bk_initial,               \* time_slots as generate_time_slots produced them
    bk_pc,                    \* per client: position inside make_booking
    bk_method,                \* per client: the method it calls
    bk_req,                   \* per client: request.time_slot
    bk_venue,                 \* per client: time_slots of the venue it read
    bk_result                 \* per client: what the call returned

asmVars == <<pc, venues_by_type, input_pool, max_venues, date, group_size,
             used_venues, all_plans, plan_index, error, result>>
tcVars == <<tc_pc, tc_venues, tc_start, tc_group, tc_timed, tc_warnings>>
sqVars == <<sq_pc, sq_entry, sq_venues, sq_start, sq_optimized, sq_i, sq_improved,
            sq_penalty>>
psVars == <<ps_pc, ps_venues_by_type, ps_history, ps_prefs, ps_type_preferences,
            ps_scores>>
rqVars == <<rq, rng>>
bkVars == <<db_slots, bk_initial, bk_pc, bk_method, bk_req, bk_venue, bk_result>>
vars == <<asmVars, tcVars, sqVars, psVars, rqVars, bkVars>>

None == "None"

(***************************************************************************)
(* Bounds of the model.                                                    *)
(***************************************************************************)
MaxPerType == 3       \* venues per category, pools of up to three categories
MaxPerTypeWide == 2   \* venues per category, pools of four categories
MaxStops == 2         \* stops handed to calculate_plan_timing
MaxShuffleLen == 7    \* length of the short lists handed to the shuffle alone
MaxEnumerated == 5    \* longest list whose every reordering is followed
MaxOrderLen == 3      \* stops handed to optimize_venue_order
MaxLegDistance == 450 \* longest leg between two stops, in hundredths of a km
MaxPerTypeShared == 3 \* venues per category in the pool two requests share
MaxSeed == 2          \* largest randomness seed of a request
RngStates == 7        \* states of the random source
MaxCounter == 2       \* largest default_counter of a generated slot

(***************************************************************************)
(* Python helpers.                                                         *)
(***************************************************************************)
Min(a, b) == IF a <= b THEN a ELSE b
Max(a, b) == IF a >= b THEN a ELSE b
Abs(a) == IF a >= 0 THEN a ELSE 0 - a

\* s[a:b] of Python for a list s; a and b may be negative or out of range.
PySlice(s, a, b) ==
    LET n == Len(s)
        lo == IF a < 0 THEN Max(n + a, 0) ELSE Min(a, n)
        hi == IF b < 0 THEN Max(n + b, 0) ELSE Min(b, n)
    IN  IF lo >= hi THEN << >> ELSE SubSeq(s, lo + 1, hi)

\* Python floor division by a positive divisor.
FloorDiv(a, b) == IF a >= 0 THEN a \div b ELSE 0 - ((0 - a + b - 1) \div b)

Reverse(s) == [i \in 1..Len(s) |-> s[Len(s) + 1 - i]]

\* Every reordering random.shuffle can leave a list in.  Of a list longer
\* than MaxEnumerated only two reorderings are followed: the list as it was
\* and the list reversed.
Shuffles(s) ==
    IF Len(s) <= MaxEnumerated
    THEN { [i \in 1..Len(s) |-> s[p[i]]] : p \in Permutations(1..Len(s)) }
    ELSE { s, Reverse(s) }

\* the largest power of two that is at most m (m >= 1)
RECURSIVE Pow2Floor(_)
Pow2Floor(m) == IF m < 2 THEN 1 ELSE 2 * Pow2Floor(m \div 2)

\* int(n * 0.7) in double arithmetic.  0.7 is stored as 0.7 - 0.4 * 2^-53.
\* When 0.7 * n is not an integer the product truncates to its floor.  When
\* it is an integer m the exact product m - n * 0.4 * 2^-53 rounds to m or
\* to the double below m, which truncates to m - 1; it rounds below when it
\* is nearer to it, that is when 4 * m > 7 * 2^floor(log2 m).
IntOfSeventyPercent(n) ==
    LET m == (7 * n) \div 10
    IN  IF n % 10 = 0 /\ m > 0 /\ 4 * m > 7 * Pow2Floor(m) THEN m - 1 ELSE m

SeqToSet(s) == { s[i] : i \in 1..Len(s) }

(***************************************************************************)
(* time_calculator.py: tables.                                             *)
(***************************************************************************)
VenueTypes == <<"restaurant", "bar", "cafe", "museum", "theater", "park",
                "shopping_center", "sports_facility", "spa", "other">>

VENUE_DURATIONS(venue_type) ==
    CASE venue_type = "restaurant" -> 90
      [] venue_type = "bar" -> 75
      [] venue_type = "cafe" -> 45
      [] venue_type = "museum" -> 120
      [] venue_type = "theater" -> 180
      [] venue_type = "park" -> 60
      [] venue_type = "shopping_center" -> 90
      [] venue_type = "sports_facility" -> 120
      [] venue_type = "spa" -> 90
      [] OTHER -> 60

TRANSITION_BUFFER == 15

\* km/h, times ten
WALKING_SPEED_KMH == 45
DRIVING_SPEED_KMH == 300

VENUE_TYPE_PRIORITIES(venue_type) ==
    CASE venue_type = "cafe" -> 1
      [] venue_type = "museum" -> 2
      [] venue_type = "park" -> 3
      [] venue_type = "shopping_center" -> 4
      [] venue_type = "sports_facility" -> 5
      [] venue_type = "spa" -> 6
      [] venue_type = "restaurant" -> 7
      [] venue_type = "theater" -> 8
      [] venue_type = "bar" -> 9
      [] OTHER -> 5

(***************************************************************************)
(* time_calculator.py: date-times.                                         *)
(***************************************************************************)
HourOf(dt) == (dt \div 3600) % 24
MinuteOf(dt) == (dt \div 60) % 60
At(day, hour, minute, second) == day * 86400 + hour * 3600 + minute * 60 + second

\* dt.strftime("%H:%M"), kept as the pair <<HH, MM>>
StrfHM(dt) == <<HourOf(dt), MinuteOf(dt)>>

\* round(x / 15) for an integer minute count x in 0..59; x / 15 is never a
\* tie (x.5) for an integer x, so round-half-even equals round-half-up here.
RoundDiv15(x) == (2 * x + 15) \div 30

\* A rounding that forgets the hour carry: 10:53 becomes 10:00.
RoundNoCarry(dt) ==
    LET rounded_minutes == (RoundDiv15(MinuteOf(dt)) * 15) % 60
    IN  (dt - (dt % 3600)) + rounded_minutes * 60

\* No rounding at all.
RoundIdentity(dt) == dt

round_time_to_15_minutes(dt) ==
    LET minutes == MinuteOf(dt)
        rounded_minutes == RoundDiv15(minutes) * 15
        hour_start == dt - (dt % 3600)
    IN  IF rounded_minutes = 60
        THEN hour_start + 3600
        ELSE hour_start + rounded_minutes * 60

(***************************************************************************)
(* time_calculator.py: distance, travel time, duration.                    *)
(***************************************************************************)
\* Haversine distance rounded to 0.01 km, for points lying on one meridian
\* (a position is the offset along it in hundredths of a km).
calculate_distance(pos1, pos2) == Abs(pos2 - pos1)

\* The estimate without its 5-minute minimum.
TravelTimeNoMinimum(distance_km, transportation_mode) ==
    IF distance_km <= 0 THEN 0
    ELSE LET speed == IF transportation_mode = "walking"
                      THEN WALKING_SPEED_KMH ELSE DRIVING_SPEED_KMH
         IN  (distance_km * 60 * 10) \div (speed * 100)

\* The integer quotient below equals the float int(distance_km / speed * 60)
\* for walking up to 4 km and for driving up to 61 km.
calculate_travel_time(distance_km, transportation_mode) ==
    IF distance_km <= 0 THEN 0
    ELSE LET speed == IF transportation_mode = "walking"
                      THEN WALKING_SPEED_KMH ELSE DRIVING_SPEED_KMH
             \* int(distance_km / speed * 60) with distance in 1/100 km
             \* and speed in 1/10 km/h
             travel_minutes == (distance_km * 60 * 10) \div (speed * 100)
         IN  Max(travel_minutes, 5)

get_venue_duration(venue_type, gsize) ==
    LET base_duration == VENUE_DURATIONS(venue_type)
        \* adjustment factor times ten
        adjustment_factor == IF gsize > 4 THEN 12
                             ELSE IF gsize > 2 THEN 11 ELSE 10
    IN  (base_duration * adjustment_factor) \div 10

(***************************************************************************)
(* time_calculator.py: opening hours. Hours of the day are kept in minutes *)
(* (hour * 60 + minute), so "21:30" is 1290.                               *)
(***************************************************************************)
\* <<open, close>> of TYPICAL_OPENING_HOURS, in minutes
TYPICAL_OPENING_HOURS(venue_type) ==
    CASE venue_type = "cafe" -> <<7 * 60, 18 * 60>>
      [] venue_type = "museum" -> <<10 * 60, 17 * 60>>
      [] venue_type = "park" -> <<6 * 60, 22 * 60>>
      [] venue_type = "shopping_center" -> <<10 * 60, 21 * 60>>
      [] venue_type = "sports_facility" -> <<6 * 60, 22 * 60>>
      [] venue_type = "spa" -> <<9 * 60, 20 * 60>>
      [] venue_type = "restaurant" -> <<11 * 60, 23 * 60>>
      [] venue_type = "theater" -> <<18 * 60, 23 * 60>>
      [] venue_type = "bar" -> <<17 * 60, 2 * 60>>
      [] OTHER -> <<9 * 60, 21 * 60>>

\* A time string of the venue data: "HH:MM", the empty string (also standing
\* for a missing key), or a text the pattern (\d{1,2}):(\d{2}) does not match.
TimeStr(h, m) == [form |-> "HH:MM", h |-> h, m |-> m]
EmptyStr == [form |-> "", h |-> 0, m |-> 0]
FreeText == [form |-> "text", h |-> 0, m |-> 0]

\* venue.get("opening_hours", {})
HoursOf(venue) ==
    IF "opening_hours" \in DOMAIN venue THEN venue.opening_hours
    ELSE [open_at |-> EmptyStr, close_at |-> EmptyStr]

\* <<open_hour, close_hour>>, or None for (None, None)
parse_opening_hours(opening_hours) ==
    LET open_str == opening_hours.open_at
        close_str == opening_hours.close_at
    IN  IF open_str.form = "" \/ close_str.form = "" THEN None
        ELSE IF open_str.form # "HH:MM" \/ close_str.form # "HH:MM" THEN None
        ELSE <<open_str.h * 60 + open_str.m, close_str.h * 60 + close_str.m>>

is_venue_open_at_time(venue, check_time) ==
    LET parsed == parse_opening_hours(HoursOf(venue))
        hours == IF parsed = None THEN TYPICAL_OPENING_HOURS(venue.venue_type)
                 ELSE parsed
        open_hour == hours[1]
        close_hour == hours[2]
        check_hour == HourOf(check_time) * 60 + MinuteOf(check_time)
    IN  IF close_hour < open_hour
        THEN check_hour >= open_hour \/ check_hour <= close_hour
        ELSE open_hour <= check_hour /\ check_hour <= close_hour

(***************************************************************************)
(* time_calculator.py: calculate_plan_timing.                              *)
(***************************************************************************)
\* duration_minutes published for a stop: the raw group-scaled duration.
RawDuration(end_datetime, current_time, duration_minutes) == duration_minutes

\* int((end_datetime - current_time).total_seconds() / 60)
actual_duration_minutes(end_datetime, current_time, duration_minutes) ==
    LET secs == end_datetime - current_time
    IN  IF secs >= 0 THEN secs \div 60 ELSE 0 - ((0 - secs) \div 60)

\* One iteration of the loop over venues: the timed copy of venues[i] and the
\* value current_time has after it.
TimeVenue(venues, i, current_time, gsize) ==
    LET venue == venues[i]
        duration_minutes == get_venue_duration(venue.venue_type, gsize)
        travel_distance_km ==
            IF i > 1 THEN calculate_distance(venues[i-1].pos, venue.pos) ELSE 0
        transport_mode == IF travel_distance_km <= 200 THEN "walking" ELSE "driving"
        travel_time_minutes ==
            IF i > 1 THEN calculate_travel_time(travel_distance_km, transport_mode)
            ELSE 0
        arrival ==
            IF i > 1
            THEN round_time_to_15_minutes(
                     current_time + (travel_time_minutes + TRANSITION_BUFFER) * 60)
            ELSE current_time
        end_datetime == round_time_to_15_minutes(arrival + duration_minutes * 60)
        venue_open_at_start == is_venue_open_at_time(venue, arrival)
        venue_open_at_end == is_venue_open_at_time(venue, end_datetime)
    IN  [id |-> venue.id, venue_type |-> venue.venue_type, pos |-> venue.pos,
         start_time |-> StrfHM(arrival),
         end_time |-> StrfHM(end_datetime),
         duration_minutes |->
             actual_duration_minutes(end_datetime, arrival, duration_minutes),
         travel_time_from_previous |-> travel_time_minutes,
         travel_distance_km |-> travel_distance_km,
         \* the date-times behind the two strings
         start_datetime |-> arrival,
         end_datetime |-> end_datetime,
         \* get_venue_duration's value, before rounding
         raw_duration |-> duration_minutes,
         \* whether the "may be closed during planned time" warning is logged
         closed_warning |-> ~venue_open_at_start \/ ~venue_open_at_end]

\* A stop with a warning is left out of the timetable.
AppendUnlessClosed(timed_venues, venue_copy) ==
    IF venue_copy.closed_warning THEN timed_venues
    ELSE Append(timed_venues, venue_copy)

\* timed_venues.append(venue_copy), after the warning
AppendTimed(timed_venues, venue_copy) == Append(timed_venues, venue_copy)

RECURSIVE TimingLoop(_, _, _, _, _)
TimingLoop(venues, i, current_time, timed_venues, gsize) ==
    IF i > Len(venues) THEN timed_venues
    ELSE LET venue_copy == TimeVenue(venues, i, current_time, gsize)
         IN  TimingLoop(venues, i + 1, venue_copy.end_datetime,
                        AppendTimed(timed_venues, venue_copy), gsize)

calculate_plan_timing(venues, start_datetime, gsize) ==
    IF venues = << >> THEN << >>
    ELSE TimingLoop(venues, 1, start_datetime, << >>, gsize)

(***************************************************************************)
(* time_calculator.py: optimize_venue_order.                               *)
(***************************************************************************)
\* <<perfect range, good range>> of calculate_time_appropriateness
TimeRanges(venue_type) ==
    CASE venue_type = "cafe" -> << <<7, 11>>, <<11, 16>> >>
      [] venue_type = "museum" -> << <<10, 15>>, <<9, 17>> >>
      [] venue_type = "park" -> << <<8, 18>>, <<6, 20>> >>
      [] venue_type = "restaurant" -> << <<12, 14>>, <<18, 22>> >>
      [] venue_type = "bar" -> << <<19, 24>>, <<17, 2>> >>
      [] OTHER -> << <<9, 21>>, <<8, 22>> >>

in_range(hour, start, end) ==
    IF start <= end THEN start <= hour /\ hour <= end
    ELSE hour >= start \/ hour <= end

calculate_time_appropriateness(venue_type, planned_time) ==
    LET hour == HourOf(planned_time)
        perfect == TimeRanges(venue_type)[1]
        good == TimeRanges(venue_type)[2]
    IN  IF in_range(hour, perfect[1], perfect[2]) THEN 0
        ELSE IF in_range(hour, good[1], good[2]) THEN 1
        ELSE 2

\* The time score weighted 3 instead of 0.3: it can outweigh the category.
ScoreTimeFirst(venue, planned_start_time) ==
    LET type_priority == VENUE_TYPE_PRIORITIES(venue.venue_type)
        time_score == calculate_time_appropriateness(venue.venue_type,
                                                     planned_start_time)
    IN  type_priority * 10 + time_score * 30

\* type_priority + time_score * 0.3, times ten
get_venue_priority_score(venue, planned_start_time) ==
    LET type_priority == VENUE_TYPE_PRIORITIES(venue.venue_type)
        time_score == calculate_time_appropriateness(venue.venue_type,
                                                     planned_start_time)
    IN  type_priority * 10 + time_score * 3

\* list.sort(key=...): stable, ascending
RECURSIVE InsertByScore(_, _, _)
InsertByScore(sorted, venue, start_time) ==
    IF sorted = << >> THEN <<venue>>
    ELSE LET last == sorted[Len(sorted)]
         IN  IF get_venue_priority_score(last, start_time)
                  <= get_venue_priority_score(venue, start_time)
             THEN Append(sorted, venue)
             ELSE Append(InsertByScore(SubSeq(sorted, 1, Len(sorted) - 1),
                                       venue, start_time), last)

RECURSIVE SortByScore(_, _)
SortByScore(venues, start_time) ==
    IF venues = << >> THEN << >>
    ELSE InsertByScore(SortByScore(SubSeq(venues, 1, Len(venues) - 1), start_time),
                       venues[Len(venues)], start_time)

\* priority-rank difference times 0.3 km, in hundredths of a km
calculate_type_conflict_penalty(venue1, venue2) ==
    LET priority1 == VENUE_TYPE_PRIORITIES(venue1.venue_type)
        priority2 == VENUE_TYPE_PRIORITIES(venue2.venue_type)
    IN  IF priority2 < priority1 THEN Abs(priority1 - priority2) * 30 ELSE 0

RECURSIVE calculate_total_travel_time(_)
calculate_total_travel_time(venues) ==
    IF Len(venues) <= 1 THEN 0
    ELSE calculate_distance(venues[1].pos, venues[2].pos)
         + calculate_total_travel_time(Tail(venues))

\* The travel of the swapped order taken for the savings.
SavingsOfSwappedOrder(first, second) ==
    calculate_total_travel_time(<<second, first>>)

\* The travel of the current order alone, the swapped order not deducted.
SavingsOfCurrentOrder(first, second) ==
    calculate_total_travel_time(<<first, second>>)

\* travel_savings_km = current_travel - swapped_travel of an adjacent pair
TravelSavings(first, second) ==
    LET current_order == <<first, second>>
        swapped_order == <<second, first>>
    IN  calculate_total_travel_time(current_order)
            - calculate_total_travel_time(swapped_order)

\* One pass of the for loop over adjacent pairs, from index i on:
\* <<list after the pass, improved>>
RECURSIVE SwapPass(_, _, _)
SwapPass(optimized, i, improved) ==
    IF i > Len(optimized) - 1 THEN <<optimized, improved>>
    ELSE LET travel_savings_km == TravelSavings(optimized[i], optimized[i+1])
             type_conflict_penalty ==
                 calculate_type_conflict_penalty(optimized[i], optimized[i+1])
         IN  IF travel_savings_km > 50 /\ travel_savings_km > type_conflict_penalty
             THEN SwapPass([optimized EXCEPT ![i] = optimized[i+1],
                                             ![i+1] = optimized[i]],
                           i + 1, TRUE)
             ELSE SwapPass(optimized, i + 1, improved)

RECURSIVE SwapLoop(_)
SwapLoop(optimized) ==
    LET pass == SwapPass(optimized, 1, FALSE)
    IN  IF pass[2] THEN SwapLoop(pass[1]) ELSE pass[1]

apply_travel_optimization(venues) ==
    IF Len(venues) <= 2 THEN venues ELSE SwapLoop(venues)

optimize_venue_order(venues, start_time) ==
    IF Len(venues) <= 1 THEN venues
    ELSE apply_travel_optimization(SortByScore(venues, start_time))

(***************************************************************************)
(* plan_generator.py: helpers of the assembler.                            *)
(***************************************************************************)
\* list(venues_by_type.keys())
Keys(vbt) == [k \in 1..Len(vbt) |-> vbt[k].venue_type]

\* venues_by_type[venue_type]
Lookup(vbt, venue_type) ==
    LET k == CHOOSE k \in 1..Len(vbt) : vbt[k].venue_type = venue_type
    IN  vbt[k].venues

\* _apply_controlled_randomness: every list the two shuffles can return.
\* top_count = max(1, int(len(venues) * 0.7))
apply_controlled_randomness(venues) ==
    IF venues = << >> THEN { venues }
    ELSE LET top_count == Max(1, IntOfSeventyPercent(Len(venues)))
             top_venues == SubSeq(venues, 1, top_count)
             remaining_venues == SubSeq(venues, top_count + 1, Len(venues))
         IN  { t \o r : t \in Shuffles(top_venues), r \in Shuffles(remaining_venues) }

\* max_venues > len(venue_types)
ValidationAlwaysPasses(mv, venue_types) == FALSE

ValidationFails(mv, venue_types) == mv > Len(venue_types)

\* The third window taken as venue_types[max_venues:].
SelectedTypesSignSlip(venue_types, mv, pidx) ==
    IF pidx = 0 THEN PySlice(venue_types, 0, mv)
    ELSE IF pidx = 1
    THEN LET start == FloorDiv(Len(venue_types) - mv, 2)
         IN  PySlice(venue_types, start, start + mv)
    ELSE PySlice(venue_types, mv, Len(venue_types))

\* The category window of plan pidx (0, 1, 2), before it is shuffled.
SelectedTypes(venue_types, mv, pidx) ==
    IF pidx = 0 THEN PySlice(venue_types, 0, mv)
    ELSE IF pidx = 1
    THEN LET start == FloorDiv(Len(venue_types) - mv, 2)
         IN  PySlice(venue_types, start, start + mv)
    ELSE PySlice(venue_types, 0 - mv, Len(venue_types))

\* The filter dropped: every venue of the category counts as available.
AvailableIgnoringUsed(vbt, venue_type, used) == Lookup(vbt, venue_type)

\* Venues taken from the first category whatever venue_type is asked for.
AvailableFromFirstType(vbt, venue_type, used) ==
    SelectSeq(vbt[1].venues, LAMBDA v : v.id \notin used)

\* [v for v in venues_by_type[venue_type] if v["id"] not in used_venues]
AvailableVenues(vbt, venue_type, used) ==
    SelectSeq(Lookup(vbt, venue_type), LAMBDA v : v.id \notin used)

\* available_venues[:min(3, len(available_venues))]
TopAvailable(available_venues) ==
    SubSeq(available_venues, 1, Min(3, Len(available_venues)))

\* The fallback guard without the stop-count test.
FallbackCanAddUncapped(unused, vfp, mv) == unused # << >>

\* unused and len(venues_for_plan) < max_venues
FallbackCanAdd(unused, vfp, mv) == unused # << >> /\ Len(vfp) < mv

\* The fallback loop entered only below two plans.
FallbackNeededBelowTwo(plans) == Len(plans) < 2

\* while len(all_plans) < 3
FallbackNeeded(plans) == Len(plans) < 3

\* _create_single_plan: the stops in optimized order with their timing, under
\* the plan id suffix plan_index + 1.
create_single_plan(venues, venue_types, pidx, start, gsize, pass) ==
    [plan_id |-> pidx + 1,
     suggested_venues |->
         calculate_plan_timing(optimize_venue_order(venues, start), start, gsize),
     venue_types_included |-> SeqToSet(venue_types),
     pass |-> pass]

\* Some venue of the list has no "location": _create_single_plan raises
\* KeyError at venue["location"] (in calculate_plan_timing for a stop after the
\* first, at the latest when it builds simplified_venue).
MissingLocation(venues) ==
    \E i \in 1..Len(venues) : "pos" \notin DOMAIN venues[i]

(***************************************************************************)
(* plan_generator.py: the two selection loops.                             *)
(***************************************************************************)
\* [v for v in venues if v["id"] not in used_venues]
Unused(venues, used) == SelectSeq(venues, LAMBDA v : v.id \notin used)

\* "for venue_type in selected_types", from the given position on: every
\* <<venues_for_plan, used_venues, types_used>> the random choices can end in.
RECURSIVE WindowedPicks(_, _, _, _, _, _, _)
WindowedPicks(vbt, types, vfp, used, tused, cats, mv) ==
    IF types = << >> THEN { <<vfp, used, tused>> }
    ELSE LET venue_type == Head(types)
             available_venues == AvailableVenues(vbt, venue_type, used)
         IN  IF venue_type \in cats \/ available_venues = << >>
             THEN WindowedPicks(vbt, Tail(types), vfp, used, tused, cats, mv)
             ELSE UNION {
                    LET vfp2 == Append(vfp, selected_venue)
                        used2 == used \cup { selected_venue.id }
                        tused2 == Append(tused, venue_type)
                    IN  IF Len(vfp2) >= mv
                        THEN { <<vfp2, used2, tused2>> }       \* break
                        ELSE WindowedPicks(vbt, Tail(types), vfp2, used2, tused2,
                                           cats \cup { venue_type }, mv)
                    : selected_venue \in SeqToSet(TopAvailable(available_venues)) }

\* "for venue_type, venues in venues_by_type.items()", from the given item on
RECURSIVE FallbackPicks(_, _, _, _, _, _)
FallbackPicks(items, vfp, used, tused, cats, mv) ==
    IF items = << >> THEN { <<vfp, used, tused>> }
    ELSE LET venue_type == Head(items).venue_type
             unused == Unused(Head(items).venues, used)
         IN  IF venue_type \notin cats /\ FallbackCanAdd(unused, vfp, mv)
             THEN UNION {
                    FallbackPicks(Tail(items), Append(vfp, selected_venue),
                                  used \cup { selected_venue.id },
                                  Append(tused, venue_type),
                                  cats \cup { venue_type }, mv)
                    : selected_venue \in
                        (IF Len(unused) > 1 THEN SeqToSet(unused) ELSE { unused[1] }) }
             ELSE FallbackPicks(Tail(items), vfp, used, tused, cats, mv)

(***************************************************************************)
(* Inputs of the assembler.                                                *)
(***************************************************************************)
\* A venue record as the discovery collaborator returns it: its id, the
\* category it is listed under and its position.
Venue(id, venue_type) ==
    [id |-> id, venue_type |-> venue_type, pos |-> (id * 70) % 300]

\* The categories a request may offer, in dict order.
OfferedTypes == <<"restaurant", "bar", "cafe", "museum">>

\* The n venues of category k.  "distinct": every place has its own id.
\* "shared": the last place of every category is one and the same place
\* (id 0), which discovery lists under each of them.  "twice": a category
\* with two or more entries lists its first place again as its last entry.
TypeList(k, n, variant) ==
    [j \in 1..n |->
        IF variant = "shared" /\ j = n THEN Venue(0, OfferedTypes[k])
        ELSE IF variant = "twice" /\ j = n /\ n >= 2
             THEN Venue(10 * k + 1, OfferedTypes[k])
        ELSE Venue(10 * k + j, OfferedTypes[k])]

\* Pools of fewer than all OfferedTypes: any list sizes up to MaxPerType, in
\* the three variants.  Pools of all OfferedTypes: any list sizes up to
\* MaxPerTypeWide, all ids distinct.
ListSizes(n) == IF n = Len(OfferedTypes) THEN 0..MaxPerTypeWide ELSE 0..MaxPerType

Variants(n) ==
    IF n = Len(OfferedTypes) THEN {"distinct"} ELSE {"distinct", "shared", "twice"}

PoolsOf(n) ==
    { [k \in 1..n |-> [venue_type |-> OfferedTypes[k],
                       venues |-> TypeList(k, size[k], variant)]] :
        size \in [1..n -> ListSizes(n)],
        variant \in Variants(n) }

Pools == UNION { PoolsOf(n) : n \in 1..Len(OfferedTypes) }

\* plan_request.date: on the 15-minute grid (validated by PlanRequest)
PlanDates == { At(0, 19, 0, 0) }

IdleAsm ==
    /\ pc = "idle" /\ venues_by_type = << >> /\ input_pool = << >>
    /\ max_venues = 1 /\ date = 0 /\ group_size = 1
    /\ used_venues = {} /\ all_plans = << >> /\ plan_index = 0
    /\ error = None /\ result = None

IdleTc ==
    /\ tc_pc = "idle" /\ tc_venues = << >> /\ tc_start = 0 /\ tc_group = 1
    /\ tc_timed = None /\ tc_warnings = 0

IdleSq ==
    /\ sq_pc = "idle" /\ sq_entry = "none" /\ sq_venues = << >> /\ sq_start = 0
    /\ sq_optimized = << >> /\ sq_i = 0 /\ sq_improved = FALSE
    /\ sq_penalty = << >>

IdlePs ==
    /\ ps_pc = "idle" /\ ps_venues_by_type = << >> /\ ps_history = << >>
    /\ ps_prefs = [kind |-> "None", preferred_price_range |-> "missing"]
    /\ ps_type_preferences = << >>
    /\ ps_scores = << >>

IdleRq == rq = << >> /\ rng = 0

IdleBk ==
    /\ db_slots = << >> /\ bk_initial = << >> /\ bk_pc = << >>
    /\ bk_method = << >> /\ bk_req = << >> /\ bk_venue = << >>
    /\ bk_result = << >>

(***************************************************************************)
(* plan_generator.py: generate_multiple_plans and _generate_multiple_plans.*)
(***************************************************************************)
InitAssembler ==
    /\ pc = "validate"
    /\ venues_by_type \in Pools
    /\ input_pool = venues_by_type
    /\ max_venues \in 1..(Len(OfferedTypes) + 1)
    /\ date \in PlanDates
    /\ group_size = 2
    /\ used_venues = {} /\ all_plans = << >> /\ plan_index = 0
    /\ error = None /\ result = None
    /\ IdleTc /\ IdleSq /\ IdlePs /\ IdleRq /\ IdleBk

\* max_venues exceeds the number of categories: ValueError
RejectRequest ==
    /\ pc = "validate"
    /\ ValidationFails(max_venues, Keys(venues_by_type))
    /\ pc' = "rejected"
    /\ error' = "ValueError"
    /\ UNCHANGED <<venues_by_type, input_pool, max_venues, date, group_size,
                   used_venues, all_plans, plan_index, result>>
    /\ UNCHANGED <<tcVars, sqVars, psVars, rqVars, bkVars>>

\* validation passed: every category's list is shuffled in place, then
\* _generate_multiple_plans starts with no plan and no used venue
ApplyRandomness ==
    /\ pc = "validate"
    /\ ~ValidationFails(max_venues, Keys(venues_by_type))
    /\ \E ch \in [1..Len(venues_by_type) ->
                    UNION { apply_controlled_randomness(venues_by_type[k].venues) :
                              k \in 1..Len(venues_by_type) }] :
          /\ \A k \in 1..Len(venues_by_type) :
                ch[k] \in apply_controlled_randomness(venues_by_type[k].venues)
          /\ venues_by_type' =
                [k \in 1..Len(venues_by_type) |->
                    [venue_type |-> venues_by_type[k].venue_type, venues |-> ch[k]]]
    /\ all_plans' = << >>
    /\ used_venues' = {}
    /\ plan_index' = 0
    /\ pc' = "plan_loop"
    /\ UNCHANGED <<input_pool, max_venues, date, group_size, error, result>>
    /\ UNCHANGED <<tcVars, sqVars, psVars, rqVars, bkVars>>

\* one iteration of "for plan_index in range(3)": the category window is
\* chosen and shuffled, a venue is picked per category, and the plan is
\* appended when it has venues
BuildWindowedPlan ==
    /\ pc = "plan_loop"
    /\ \E selected_types \in
            Shuffles(SelectedTypes(Keys(venues_by_type), max_venues, plan_index)) :
       \E picks \in WindowedPicks(venues_by_type, selected_types, << >>,
                                  used_venues, << >>, {}, max_venues) :
          /\ ~MissingLocation(picks[1])
          /\ used_venues' = picks[2]
          /\ all_plans' =
                IF picks[1] # << >>
                THEN Append(all_plans,
                            create_single_plan(picks[1], picks[3], plan_index,
                                               date, group_size, "windowed"))
                ELSE all_plans
    /\ IF plan_index < 2
       THEN plan_index' = plan_index + 1 /\ pc' = "plan_loop"
       ELSE plan_index' = plan_index /\ pc' = "fallback_loop"
    /\ UNCHANGED <<venues_by_type, input_pool, max_venues, date, group_size,
                   error, result>>
    /\ UNCHANGED <<tcVars, sqVars, psVars, rqVars, bkVars>>

\* one iteration of "while len(all_plans) < 3": a plan from the unused venues
\* is appended, or the loop is left when there is none
BuildFallbackPlan ==
    /\ pc = "fallback_loop"
    /\ FallbackNeeded(all_plans)
    /\ \E picks \in FallbackPicks(venues_by_type, << >>, used_venues, << >>, {},
                                  max_venues) :
          /\ ~MissingLocation(picks[1])
          /\ used_venues' = picks[2]
          /\ IF picks[1] # << >>
             THEN /\ all_plans' =
                        Append(all_plans,
                               create_single_plan(picks[1], picks[3], Len(all_plans),
                                                  date, group_size, "fallback"))
                  /\ pc' = "fallback_loop"
             ELSE /\ all_plans' = all_plans
                  /\ pc' = "break"
    /\ UNCHANGED <<venues_by_type, input_pool, max_venues, date, group_size,
                   plan_index, error, result>>
    /\ UNCHANGED <<tcVars, sqVars, psVars, rqVars, bkVars>>

\* return all_plans[:3]
ReturnPlans ==
    /\ \/ pc = "fallback_loop" /\ ~FallbackNeeded(all_plans)
       \/ pc = "break"
    /\ result' = PySlice(all_plans, 0, 3)
    /\ pc' = "done"
    /\ UNCHANGED <<venues_by_type, input_pool, max_venues, date, group_size,
                   used_venues, all_plans, plan_index, error>>
    /\ UNCHANGED <<tcVars, sqVars, psVars, rqVars, bkVars>>

NextAssembler ==
    \/ RejectRequest
    \/ ApplyRandomness
    \/ BuildWindowedPlan
    \/ BuildFallbackPlan
    \/ ReturnPlans

SpecAssembler == InitAssembler /\ [][NextAssembler]_vars

(***************************************************************************)
(* plan_generator.py: generate_multiple_plans on a single category, for    *)
(* what _apply_controlled_randomness does to one list.                     *)
(***************************************************************************)
\* lengths of the list: the short ones and one of 90 venues
ShuffleLengths == (0..MaxShuffleLen) \cup {90}

ShufflePools ==
    { << [venue_type |-> "restaurant",
          venues |-> [j \in 1..n |-> Venue(j, "restaurant")]] >> :
        n \in ShuffleLengths }

InitShuffle ==
    /\ pc = "validate"
    /\ venues_by_type \in ShufflePools
    /\ input_pool = venues_by_type
    /\ max_venues \in {1, 2}
    /\ date \in PlanDates
    /\ group_size = 2
    /\ used_venues = {} /\ all_plans = << >> /\ plan_index = 0
    /\ error = None /\ result = None
    /\ IdleTc /\ IdleSq /\ IdlePs /\ IdleRq /\ IdleBk

SpecShuffle == InitShuffle /\ [][NextAssembler]_vars

(***************************************************************************)
(* plan_generator.py: generate_multiple_plans on a pool with one malformed *)
(* venue record.                                                           *)
(***************************************************************************)
\* the record without its "location"
WithoutLocation(venue) == [id |-> venue.id, venue_type |-> venue.venue_type]

\* the record with a venue_type that is no category
WithBadCategory(venue) == [venue EXCEPT !.venue_type = "nightclub"]

Malformed(venue) ==
    "pos" \notin DOMAIN venue \/ venue.venue_type \notin SeqToSet(VenueTypes)

\* which record of a pool of n categories is malformed, and how
MalformedChoices(n) ==
    { c \in [size : [1..n -> 1..MaxPerTypeWide], k : 1..n,
             j : 1..MaxPerTypeWide, how : {"location", "category"}] :
        c.j <= c.size[c.k] }

\* pools of 2 or 3 categories with 1..MaxPerTypeWide venues each, one record
\* of which is malformed
MalformedPools ==
    UNION { { [k \in 1..n |->
                 [venue_type |-> OfferedTypes[k],
                  venues |-> [j \in 1..c.size[k] |->
                      LET venue == Venue(10 * k + j, OfferedTypes[k])
                      IN  IF k = c.k /\ j = c.j
                          THEN (IF c.how = "location" THEN WithoutLocation(venue)
                                ELSE WithBadCategory(venue))
                          ELSE venue]]] :
                c \in MalformedChoices(n) } :
            n \in 2..3 }

InitMalformed ==
    /\ pc = "validate"
    /\ venues_by_type \in MalformedPools
    /\ input_pool = venues_by_type
    /\ max_venues \in 1..(Len(venues_by_type) + 1)
    /\ date \in PlanDates
    /\ group_size = 2
    /\ used_venues = {} /\ all_plans = << >> /\ plan_index = 0
    /\ error = None /\ result = None
    /\ IdleTc /\ IdleSq /\ IdlePs /\ IdleRq /\ IdleBk

\* an iteration of "for plan_index in range(3)" whose picks include a venue
\* without location: the KeyError of _create_single_plan leaves
\* _generate_multiple_plans and is re-raised by generate_multiple_plans
WindowedPlanRaises ==
    /\ pc = "plan_loop"
    /\ \E selected_types \in
            Shuffles(SelectedTypes(Keys(venues_by_type), max_venues, plan_index)) :
       \E picks \in WindowedPicks(venues_by_type, selected_types, << >>,
                                  used_venues, << >>, {}, max_venues) :
          MissingLocation(picks[1])
    /\ pc' = "failed"
    /\ error' = "KeyError"
    /\ UNCHANGED <<venues_by_type, input_pool, max_venues, date, group_size,
                   used_venues, all_plans, plan_index, result>>
    /\ UNCHANGED <<tcVars, sqVars, psVars, rqVars, bkVars>>

\* the same in an iteration of "while len(all_plans) < 3"
FallbackPlanRaises ==
    /\ pc = "fallback_loop"
    /\ FallbackNeeded(all_plans)
    /\ \E picks \in FallbackPicks(venues_by_type, << >>, used_venues, << >>, {},
                                  max_venues) :
          MissingLocation(picks[1])
    /\ pc' = "failed"
    /\ error' = "KeyError"
    /\ UNCHANGED <<venues_by_type, input_pool, max_venues, date, group_size,
                   used_venues, all_plans, plan_index, result>>
    /\ UNCHANGED <<tcVars, sqVars, psVars, rqVars, bkVars>>

NextMalformed ==
    \/ NextAssembler
    \/ WindowedPlanRaises
    \/ FallbackPlanRaises

SpecMalformed == InitMalformed /\ [][NextMalformed]_vars

\* ids of the malformed records of a pool
MalformedIds(vbt) ==
    { vbt[k].venues[j].id :
        <<k, j>> \in { kj \in (1..Len(vbt)) \X (1..MaxPerTypeWide) :
                         /\ kj[2] <= Len(vbt[kj[1]].venues)
                         /\ Malformed(vbt[kj[1]].venues[kj[2]]) } }

(***************************************************************************)
(* plan_generator.py: two generate_multiple_plans calls in one process.    *)
(* The random module is one generator for the whole process: random.seed   *)
(* sets its state, every shuffle and choice reads the state and advances   *)
(* it.  What a draw returns is a fixed function of the state.              *)
(***************************************************************************)
\* random.seed(seed)
random_seed(seed) == seed % RngStates

\* the state after one draw
Advance(state) == (3 * state + 1) % RngStates

RotateLeft(seq, k) ==
    [i \in 1..Len(seq) |-> seq[((i - 1 + k) % Len(seq)) + 1]]

\* random.shuffle(seq): a list of at most one element takes no draw
random_shuffle(seq, state) ==
    IF Len(seq) <= 1 THEN [out |-> seq, rng |-> state]
    ELSE [out |-> RotateLeft(seq, state % Len(seq)), rng |-> Advance(state)]

\* random.choice(seq)
random_choice(seq, state) ==
    [out |-> seq[(state % Len(seq)) + 1], rng |-> Advance(state)]

\* hash(venue_type)
HashOf(venue_type) ==
    CASE venue_type = "restaurant" -> 1
      [] venue_type = "bar" -> 2
      [] OTHER -> 3

\* _apply_controlled_randomness with the draws of the random source
SeededRandomness(venues, seed, state) ==
    IF venues = << >> THEN [out |-> venues, rng |-> state]
    ELSE LET top_count == Max(1, IntOfSeventyPercent(Len(venues)))
             top == random_shuffle(SubSeq(venues, 1, top_count), random_seed(seed))
             rest == random_shuffle(SubSeq(venues, top_count + 1, Len(venues)),
                                    top.rng)
         IN  [out |-> top.out \o rest.out, rng |-> rest.rng]

\* "for venue_type in venues_by_type", from category k on
RECURSIVE RandomizeFrom(_, _, _, _)
RandomizeFrom(vbt, k, seed, state) ==
    IF k > Len(vbt) THEN [out |-> vbt, rng |-> state]
    ELSE LET r == SeededRandomness(vbt[k].venues,
                                   seed + HashOf(vbt[k].venue_type), state)
         IN  RandomizeFrom([vbt EXCEPT ![k].venues = r.out], k + 1, seed, r.rng)

\* The state of the random source left as it is.
KeepRandomState(state, seed) == state

\* random.seed(...) at the start of an iteration of either plan loop
SeedForPlan(state, seed) == random_seed(seed)

\* "for venue_type in selected_types" with the draws of the random source
RECURSIVE SeededWindowedPicks(_, _, _, _, _, _, _, _)
SeededWindowedPicks(vbt, types, vfp, used, tused, cats, mv, state) ==
    IF types = << >> THEN [vfp |-> vfp, used |-> used, tused |-> tused, rng |-> state]
    ELSE LET venue_type == Head(types)
             available_venues == AvailableVenues(vbt, venue_type, used)
         IN  IF venue_type \in cats \/ available_venues = << >>
             THEN SeededWindowedPicks(vbt, Tail(types), vfp, used, tused, cats,
                                      mv, state)
             ELSE LET c == random_choice(TopAvailable(available_venues), state)
                      vfp2 == Append(vfp, c.out)
                      used2 == used \cup { c.out.id }
                      tused2 == Append(tused, venue_type)
                  IN  IF Len(vfp2) >= mv
                      THEN [vfp |-> vfp2, used |-> used2, tused |-> tused2,
                            rng |-> c.rng]
                      ELSE SeededWindowedPicks(vbt, Tail(types), vfp2, used2,
                                               tused2, cats \cup { venue_type },
                                               mv, c.rng)

\* "for venue_type, venues in venues_by_type.items()" with the draws
RECURSIVE SeededFallbackPicks(_, _, _, _, _, _, _)
SeededFallbackPicks(items, vfp, used, tused, cats, mv, state) ==
    IF items = << >> THEN [vfp |-> vfp, used |-> used, tused |-> tused, rng |-> state]
    ELSE LET venue_type == Head(items).venue_type
             unused == Unused(Head(items).venues, used)
         IN  IF venue_type \notin cats /\ FallbackCanAdd(unused, vfp, mv)
             THEN LET c == IF Len(unused) > 1 THEN random_choice(unused, state)
                           ELSE [out |-> unused[1], rng |-> state]
                  IN  SeededFallbackPicks(Tail(items), Append(vfp, c.out),
                                          used \cup { c.out.id },
                                          Append(tused, venue_type),
                                          cats \cup { venue_type }, mv, c.rng)
             ELSE SeededFallbackPicks(Tail(items), vfp, used, tused, cats, mv,
                                      state)

\* A request at the entry of generate_multiple_plans.
NewRequest(vbt, mv, seed) ==
    [pc |-> "validate", venues_by_type |-> vbt, input_pool |-> vbt,
     max_venues |-> mv, seed |-> seed, used_venues |-> {}, all_plans |-> << >>,
     plan_index |-> 0, result |-> << >>, met |-> FALSE]

\* The steps of one request between two awaits, on the request's own state
\* and the state of the random source: <<request after, source after>>.
\* Validation and the shuffle of every category, up to the await of
\* _generate_multiple_plans.
RandomizeStep(req, state) ==
    IF ValidationFails(req.max_venues, Keys(req.venues_by_type))
    THEN [req |-> [req EXCEPT !.pc = "rejected"], rng |-> state]
    ELSE LET r == RandomizeFrom(req.venues_by_type, 1, req.seed, state)
         IN  [req |-> [req EXCEPT !.pc = "plan_loop", !.venues_by_type = r.out],
              rng |-> r.rng]

\* one iteration of "for plan_index in range(3)"
WindowedStep(req, state) ==
    LET seeded == SeedForPlan(state, req.seed + req.plan_index)
        selected_types ==
            random_shuffle(SelectedTypes(Keys(req.venues_by_type), req.max_venues,
                                         req.plan_index), seeded)
        picks == SeededWindowedPicks(req.venues_by_type, selected_types.out, << >>,
                                     req.used_venues, << >>, {}, req.max_venues,
                                     selected_types.rng)
    IN  [req |-> [req EXCEPT
                    !.used_venues = picks.used,
                    !.all_plans =
                        IF picks.vfp # << >>
                        THEN Append(@, create_single_plan(picks.vfp, picks.tused,
                                        req.plan_index, At(0, 19, 0, 0), 2,
                                        "windowed"))
                        ELSE @,
                    !.plan_index = IF @ < 2 THEN @ + 1 ELSE @,
                    !.pc = IF req.plan_index < 2 THEN "plan_loop"
                           ELSE "fallback_loop"],
         rng |-> picks.rng]

\* one iteration of "while len(all_plans) < 3"
FallbackStep(req, state) ==
    LET seeded == SeedForPlan(state, req.seed + Len(req.all_plans) + 100)
        picks == SeededFallbackPicks(req.venues_by_type, << >>, req.used_venues,
                                     << >>, {}, req.max_venues, seeded)
    IN  [req |-> [req EXCEPT
                    !.used_venues = picks.used,
                    !.all_plans =
                        IF picks.vfp # << >>
                        THEN Append(@, create_single_plan(picks.vfp, picks.tused,
                                        Len(req.all_plans), At(0, 19, 0, 0), 2,
                                        "fallback"))
                        ELSE @,
                    !.pc = IF picks.vfp # << >> THEN "fallback_loop" ELSE "break"],
         rng |-> picks.rng]

\* return all_plans[:3]
ReturnStep(req, state) ==
    [req |-> [req EXCEPT !.result = PySlice(req.all_plans, 0, 3), !.pc = "done"],
     rng |-> state]

Returning(req) ==
    \/ req.pc = "fallback_loop" /\ ~FallbackNeeded(req.all_plans)
    \/ req.pc = "break"

\* the whole call with no other request in the process
RECURSIVE RunAlone(_, _)
RunAlone(req, state) ==
    IF req.pc \in {"done", "rejected"} THEN req
    ELSE LET s == IF req.pc = "validate" THEN RandomizeStep(req, state)
                  ELSE IF req.pc = "plan_loop" THEN WindowedStep(req, state)
                  ELSE IF Returning(req) THEN ReturnStep(req, state)
                  ELSE FallbackStep(req, state)
         IN  RunAlone(s.req, s.rng)

\* the pool both requests are given (each its own copy): two categories of
\* 0, 2 or up to MaxPerTypeShared venues
SharedPools ==
    { [k \in 1..2 |-> [venue_type |-> OfferedTypes[k],
                       venues |-> TypeList(k, size[k], "distinct")]] :
        size \in [1..2 -> {0} \cup (2..MaxPerTypeShared)] }

InitRequests ==
    /\ \E vbt \in SharedPools :
          rq \in [1..2 -> { NewRequest(vbt, mv, seed) :
                              mv \in 1..2, seed \in 0..MaxSeed }]
    /\ rng = 0
    /\ IdleAsm /\ IdleTc /\ IdleSq /\ IdlePs /\ IdleBk

\* request r runs on to its next await; met records that the other request
\* was under way at that moment
Resume(r, s) ==
    /\ rq' = [rq EXCEPT ![r] =
                [s.req EXCEPT !.met =
                    @ \/ rq[3 - r].pc \notin {"validate", "done", "rejected"}]]
    /\ rng' = s.rng
    /\ UNCHANGED <<asmVars, tcVars, sqVars, psVars, bkVars>>

RqApplyRandomness(r) ==
    /\ rq[r].pc = "validate"
    /\ Resume(r, RandomizeStep(rq[r], rng))

RqBuildWindowedPlan(r) ==
    /\ rq[r].pc = "plan_loop"
    /\ Resume(r, WindowedStep(rq[r], rng))

RqBuildFallbackPlan(r) ==
    /\ rq[r].pc = "fallback_loop" /\ FallbackNeeded(rq[r].all_plans)
    /\ Resume(r, FallbackStep(rq[r], rng))

RqReturnPlans(r) ==
    /\ Returning(rq[r])
    /\ Resume(r, ReturnStep(rq[r], rng))

NextRequests ==
    \E r \in 1..2 :
        \/ RqApplyRandomness(r)
        \/ RqBuildWindowedPlan(r)
        \/ RqBuildFallbackPlan(r)
        \/ RqReturnPlans(r)

SpecRequests == InitRequests /\ [][NextRequests]_vars

\* ids of the venues in the itineraries of a list of plans
IdsInPlans(plans) ==
    UNION { { plans[p].suggested_venues[i].id :
                i \in 1..Len(plans[p].suggested_venues) } : p \in 1..Len(plans) }

\* C22: whatever the interleaving of two requests, a finished request holds
\* exactly the itineraries and the used-venue set it gets when run alone
\* from the same pool, stop count and seed, and its used-venue set holds
\* the venues of its own itineraries only.
C22_RequestsIndependent ==
    \A r \in 1..Len(rq) :
        rq[r].pc = "done" =>
            LET alone == RunAlone(NewRequest(rq[r].input_pool, rq[r].max_venues,
                                             rq[r].seed), 0)
            IN  /\ rq[r].result = alone.result
                /\ rq[r].used_venues = alone.used_venues
                /\ rq[r].used_venues = IdsInPlans(rq[r].all_plans)

\* both finished, each having run while the other was under way, with
\* different itineraries and a venue that is in itineraries of both
C22_Witness ==
    /\ Len(rq) = 2
    /\ rq[1].pc = "done" /\ rq[2].pc = "done"
    /\ rq[1].met /\ rq[2].met
    /\ rq[1].result # rq[2].result
    /\ IdsInPlans(rq[1].result) \cap IdsInPlans(rq[2].result) # {}

(***************************************************************************)
(* Properties of the assembler.                                            *)
(***************************************************************************)
\* <<plan number, stop number>> of every stop of a list of plans
StopsOf(plans) ==
    { <<p, i>> : p \in 1..Len(plans), i \in 1..3 * Len(OfferedTypes) }
        \cap UNION { { <<p, i>> : i \in 1..Len(plans[p].suggested_venues) } :
                     p \in 1..Len(plans) }

StopId(plans, st) == plans[st[1]].suggested_venues[st[2]].id
StopType(plans, st) == plans[st[1]].suggested_venues[st[2]].venue_type

PoolIds(vbt) ==
    UNION { { vbt[k].venues[j].id : j \in 1..Len(vbt[k].venues) } : k \in 1..Len(vbt) }

PoolSize(vbt) ==
    LET RECURSIVE Sum(_)
        Sum(k) == IF k = 0 THEN 0 ELSE Len(vbt[k].venues) + Sum(k - 1)
    IN  Sum(Len(vbt))

HasPass(plans, pass) == \E p \in 1..Len(plans) : plans[p].pass = pass

\* C1: a venue id occurs in at most one stop of all the itineraries built,
\* inside one itinerary and across them, in the windowed and the fallback pass.
C1_Disjoint ==
    \A s1 \in StopsOf(all_plans), s2 \in StopsOf(all_plans) :
        s1 # s2 => StopId(all_plans, s1) # StopId(all_plans, s2)

\* returned: a windowed and a fallback itinerary from a pool in which one
\* place is listed under several categories and was placed
C1_Witness ==
    /\ pc = "done"
    /\ HasPass(result, "windowed") /\ HasPass(result, "fallback")
    /\ PoolSize(venues_by_type) > Cardinality(PoolIds(venues_by_type))
    /\ \E st \in StopsOf(result) : StopId(result, st) = 0

\* C2: every itinerary has at most max_venues stops, whichever pass built it.
C2_StopCap ==
    \A p \in 1..Len(all_plans) :
        Len(all_plans[p].suggested_venues) <= max_venues

\* returned: a full fallback itinerary although venues were left over
C2_Witness ==
    /\ pc = "done"
    /\ \E p \in 1..Len(result) :
          /\ result[p].pass = "fallback"
          /\ Len(result[p].suggested_venues) = max_venues
    /\ PoolIds(venues_by_type) \ used_venues # {}

\* C3: no two stops of one itinerary come from the same category.
C3_CategoriesDistinct ==
    \A s1 \in StopsOf(all_plans), s2 \in StopsOf(all_plans) :
        (s1 # s2 /\ s1[1] = s2[1])
            => StopType(all_plans, s1) # StopType(all_plans, s2)

\* returned: a windowed and a fallback itinerary of two or more stops each
C3_Witness ==
    /\ pc = "done"
    /\ \E p \in 1..Len(result), q \in 1..Len(result) :
          /\ result[p].pass = "windowed" /\ Len(result[p].suggested_venues) >= 2
          /\ result[q].pass = "fallback" /\ Len(result[q].suggested_venues) >= 2

\* C4: at most 3 itineraries are returned; fewer than 3 only when every venue
\* of the pool has been placed in a returned itinerary; never an error.
C4_ThreeUnlessExhausted ==
    pc = "done" =>
        /\ Len(result) <= 3
        /\ error = None
        /\ Len(result) < 3 =>
              /\ PoolIds(venues_by_type) \subseteq used_venues
              /\ PoolIds(venues_by_type)
                    = { StopId(result, st) : st \in StopsOf(result) }

\* returned: two itineraries, one of them from the fallback pass
C4_Witness ==
    /\ pc = "done"
    /\ Len(result) = 2
    /\ HasPass(result, "fallback")

C6_Pre ==
    /\ max_venues <= Len(input_pool)
    /\ \A k \in 1..Len(input_pool) : Len(input_pool[k].venues) >= 3
    /\ Cardinality(PoolIds(input_pool)) = PoolSize(input_pool)

\* C6: under C6_Pre exactly 3 itineraries are returned and each has exactly
\* max_venues stops.
C6_FullResult ==
    (pc = "done" /\ C6_Pre) =>
        /\ Len(result) = 3
        /\ \A p \in 1..3 : Len(result[p].suggested_venues) = max_venues

\* returned: 3 categories, stop count 2, 3 itineraries with 6 distinct venues
C6_Witness ==
    /\ pc = "done" /\ C6_Pre
    /\ Len(input_pool) = 3 /\ max_venues = 2
    /\ Len(result) = 3
    /\ Cardinality({ StopId(result, st) : st \in StopsOf(result) }) = 6

\* C26: the plan_id values of the returned itineraries are pairwise distinct.
C26_PlanIdsDistinct ==
    pc = "done" =>
        \A p \in 1..Len(result) : \A q \in 1..Len(result) :
            p # q => result[p].plan_id # result[q].plan_id

\* PlanRequest.max_venues when the request omits it
DefaultMaxVenues == 5

\* C24: a request that omits max_venues, for whose categories venues are
\* found, is not rejected by the stop-count validation and yields plan
\* options.
C24_DefaultAccepted ==
    (/\ max_venues = DefaultMaxVenues
     /\ input_pool # << >>
     /\ \A k \in 1..Len(input_pool) : input_pool[k].venues # << >>) =>
        /\ pc # "rejected"
        /\ pc = "done" => result # << >>

\* C20: a malformed venue record never aborts generation, and no returned
\* itinerary contains it.
C20_MalformedDropped ==
    /\ pc # "failed"
    /\ pc = "done" =>
          \A p \in 1..Len(result) : \A i \in 1..Len(result[p].suggested_venues) :
              result[p].suggested_venues[i].id \notin MalformedIds(input_pool)

\* C15: when max_venues is smaller than the number of categories, the
\* category windows the three iterations of the windowed pass selected are
\* pairwise different sets.
C15_WindowsDiffer ==
    (pc \in {"fallback_loop", "break", "done"} /\ max_venues < Len(venues_by_type)) =>
        \A i \in 0..2 : \A j \in 0..2 :
            i < j =>
                SeqToSet(SelectedTypes(Keys(venues_by_type), max_venues, i))
                    # SeqToSet(SelectedTypes(Keys(venues_by_type), max_venues, j))

\* C14: the list _apply_controlled_randomness returns is a permutation of
\* its input whose first T = max(1, floor(0.7 * n)) places hold the first T
\* input elements and whose other places hold the other input elements.
C14_SlicesPreserved ==
    pc \notin {"validate", "rejected"} =>
        \A k \in 1..Len(input_pool) :
            LET in == input_pool[k].venues
                out == venues_by_type[k].venues
                n == Len(in)
                T == Max(1, (7 * n) \div 10)
            IN  /\ Len(out) = n
                /\ SeqToSet(out) = SeqToSet(in)
                /\ n > 0 =>
                      /\ SeqToSet(SubSeq(out, 1, T)) = SeqToSet(SubSeq(in, 1, T))
                      /\ SeqToSet(SubSeq(out, T + 1, n))
                            = SeqToSet(SubSeq(in, T + 1, n))

(***************************************************************************)
(* time_calculator.py: one calculate_plan_timing call on arbitrary input.  *)
(***************************************************************************)
TcTypes == SeqToSet(VenueTypes)
TcPositions == { 0, 10, 400 }
TcGroupSizes == { 2, 3, 5 }

\* start_datetime: on the grid, off the grid, before an hour or day change
TcStarts == { At(0, 10, 0, 0), At(0, 19, 30, 0), At(0, 23, 45, 0),
              At(0, 10, 7, 30), At(0, 10, 52, 0), At(0, 23, 53, 20) }

TcVenueLists ==
    UNION { { [i \in 1..n |-> [id |-> i, venue_type |-> ty[i], pos |-> ps[i]]] :
                ty \in [1..n -> TcTypes], ps \in [1..n -> TcPositions] } :
            n \in 0..MaxStops }

OnGrid(dt) == MinuteOf(dt) \in {0, 15, 30, 45} /\ dt % 60 = 0

InitTimetable ==
    /\ tc_pc = "call"
    /\ tc_venues \in TcVenueLists
    /\ tc_start \in TcStarts
    /\ tc_group \in TcGroupSizes
    /\ tc_timed = None
    /\ tc_warnings = 0
    /\ IdleAsm /\ IdleSq /\ IdlePs /\ IdleRq /\ IdleBk

CalculatePlanTiming ==
    /\ tc_pc = "call"
    /\ tc_timed' = calculate_plan_timing(tc_venues, tc_start, tc_group)
    /\ tc_pc' = "done"
    /\ tc_warnings' = Cardinality({ i \in 1..Len(tc_timed') : tc_timed'[i].closed_warning })
    /\ UNCHANGED <<tc_venues, tc_start, tc_group>>
    /\ UNCHANGED <<asmVars, sqVars, psVars, rqVars, bkVars>>

NextTimetable == CalculatePlanTiming

SpecTimetable == InitTimetable /\ [][NextTimetable]_vars

\* calculate_plan_timing on two stops: the second lies any distance up to
\* MaxLegDistance from the first
LegVenueLists ==
    { << [id |-> 1, venue_type |-> ty[1], pos |-> 0],
         [id |-> 2, venue_type |-> ty[2], pos |-> d] >> :
        ty \in [1..2 -> {"cafe", "bar"}], d \in 0..MaxLegDistance }

InitLegs ==
    /\ tc_pc = "call"
    /\ tc_venues \in LegVenueLists
    /\ tc_start \in { At(0, 10, 0, 0) }
    /\ tc_group = 2
    /\ tc_timed = None
    /\ tc_warnings = 0
    /\ IdleAsm /\ IdleSq /\ IdlePs /\ IdleRq /\ IdleBk

SpecLegs == InitLegs /\ [][NextTimetable]_vars

\* the minutes calculate_plan_timing assigns to a leg of the given length:
\* walking up to 2.0 km, driving above
LegMinutes(travel_distance_km) ==
    calculate_travel_time(travel_distance_km,
                          IF travel_distance_km <= 200 THEN "walking" ELSE "driving")

\* C21: a leg of positive length takes at least 5 minutes (0.1 km exactly 5),
\* a leg takes 0 minutes only when its length is 0, and the minutes are
\* those of 4.5 km/h up to 2 km and of 30 km/h above.
C21_TravelTimeFloor ==
    (tc_pc = "done" /\ Len(tc_timed) = 2) =>
        LET d == tc_timed[2].travel_distance_km
            t == tc_timed[2].travel_time_from_previous
        IN  /\ d > 0 => t >= 5
            /\ t = 0 <=> d = 0
            /\ d = 10 => t = 5
            /\ d > 0 => t = Max(5, IF d <= 200 THEN (2 * d) \div 15 ELSE d \div 50)

\* timed: a leg of 0.1 km with 5 minutes of travel
C21_Witness ==
    /\ tc_pc = "done" /\ Len(tc_timed) = 2
    /\ tc_timed[2].travel_distance_km = 10
    /\ tc_timed[2].travel_time_from_previous = 5

\* C28: the minutes of a leg are not less than the minutes of any shorter leg.
C28_TravelTimeMonotone ==
    (tc_pc = "done" /\ Len(tc_timed) = 2) =>
        \A d1 \in 0..tc_timed[2].travel_distance_km :
            LegMinutes(d1) <= tc_timed[2].travel_time_from_previous

\* calculate_plan_timing on stops that carry opening hours: a daytime
\* interval, one that wraps past midnight, the whole day, a record without
\* close_at, and one whose open_at is free text
OhHours ==
    { [open_at |-> TimeStr(9, 0), close_at |-> TimeStr(17, 30)],
      [open_at |-> TimeStr(18, 0), close_at |-> TimeStr(2, 0)],
      [open_at |-> TimeStr(0, 0), close_at |-> TimeStr(23, 59)],
      [open_at |-> TimeStr(9, 0), close_at |-> EmptyStr],
      [open_at |-> FreeText, close_at |-> TimeStr(17, 30)] }

OhTypes == { "cafe", "bar", "nightclub" }
OhPositions == { 0, 400 }

OhVenueLists ==
    UNION { { [i \in 1..n |-> [id |-> i, venue_type |-> ty[i], pos |-> ps[i],
                               opening_hours |-> oh[i]]] :
                ty \in [1..n -> OhTypes], ps \in [1..n -> OhPositions],
                oh \in [1..n -> OhHours] } :
            n \in 0..MaxStops }

InitOpeningHours ==
    /\ tc_pc = "call"
    /\ tc_venues \in OhVenueLists
    /\ tc_start \in TcStarts
    /\ tc_group \in { 2, 5 }
    /\ tc_timed = None
    /\ tc_warnings = 0
    /\ IdleAsm /\ IdleSq /\ IdlePs /\ IdleRq /\ IdleBk

SpecOpeningHours == InitOpeningHours /\ [][NextTimetable]_vars

\* the same stop declared open from 00:00 to 23:59: no time conflicts with it
RoundTheClock(venue) ==
    [venue EXCEPT !.opening_hours =
        [open_at |-> TimeStr(0, 0), close_at |-> TimeStr(23, 59)]]

\* id and times of a timed stop
Slot(timed) ==
    [id |-> timed.id, start_time |-> timed.start_time, end_time |-> timed.end_time]

\* C19: whether or not a stop's start or end falls outside its declared or
\* typical opening interval, calculate_plan_timing returns one timed stop per
\* input stop, in the input order, with the times the same list gets when
\* nothing conflicts.
C19_HoursNeverAlterPlan ==
    tc_pc = "done" =>
        LET free == calculate_plan_timing(
                        [i \in 1..Len(tc_venues) |-> RoundTheClock(tc_venues[i])],
                        tc_start, tc_group)
        IN  /\ Len(tc_timed) = Len(tc_venues)
            /\ \A i \in 1..Len(tc_venues) :
                  /\ tc_timed[i].id = tc_venues[i].id
                  /\ ~free[i].closed_warning
                  /\ Slot(tc_timed[i]) = Slot(free[i])

\* timed: two stops, the first outside its declared hours, the second outside
\* the typical hours of its category, both warned about and both kept
C19_Witness ==
    /\ tc_pc = "done" /\ Len(tc_venues) = 2 /\ Len(tc_timed) = 2
    /\ tc_warnings = 2
    /\ parse_opening_hours(tc_venues[1].opening_hours) # None
    /\ parse_opening_hours(tc_venues[2].opening_hours) = None

\* minutes from one "HH:MM" to a later one, at most a day apart
ClockDiff(from, to) == ((to[1] * 60 + to[2]) - (from[1] * 60 + from[2])) % 1440

\* C7: in every timetable, stop i (i > 1) starts no earlier than stop i-1
\* ends, compared as date-times, whatever the start instant, the distances
\* and the group size.
C7_MonotonicTime ==
    tc_pc = "done" =>
        \A i \in 2..Len(tc_timed) :
            tc_timed[i].start_datetime >= tc_timed[i-1].end_datetime

\* a timetable of two stops whose second arrival was rounded down
C7_Witness ==
    /\ tc_pc = "done"
    /\ Len(tc_timed) >= 2
    /\ ~OnGrid(tc_start)
    /\ tc_timed[2].travel_time_from_previous > 0
    /\ tc_timed[2].start_datetime
         < tc_timed[1].end_datetime
             + (tc_timed[2].travel_time_from_previous + TRANSITION_BUFFER) * 60

\* minutes since midnight of an "HH:MM"
ClockMinutes(hm) == hm[1] * 60 + hm[2]

\* C27: read as times of day, the emitted start_time and end_time strings
\* never go back along an itinerary, also when it runs past midnight.
C27_ClockStringsOrdered ==
    tc_pc = "done" =>
        /\ \A i \in 1..Len(tc_timed) :
              ClockMinutes(tc_timed[i].start_time) <= ClockMinutes(tc_timed[i].end_time)
        /\ \A i \in 2..Len(tc_timed) :
              ClockMinutes(tc_timed[i-1].end_time) <= ClockMinutes(tc_timed[i].start_time)

\* C8: a plan start on the 15-minute grid gives every stop, the first
\* included, a start_time and an end_time whose minute is 0, 15, 30 or 45.
C8_GridAlignment ==
    (tc_pc = "done" /\ OnGrid(tc_start)) =>
        \A i \in 1..Len(tc_timed) :
            /\ tc_timed[i].start_time[2] \in {0, 15, 30, 45}
            /\ tc_timed[i].end_time[2] \in {0, 15, 30, 45}

\* a grid-aligned plan whose raw end (start + duration) is off the grid
C8_Witness ==
    /\ tc_pc = "done" /\ OnGrid(tc_start)
    /\ Len(tc_timed) >= 2
    /\ \E i \in 1..Len(tc_timed) : tc_timed[i].raw_duration % 15 # 0

\* C9: with a grid-aligned start, the published duration_minutes of a stop is
\* its end_time minus its start_time and a multiple of 15.
C9_EffectiveDuration ==
    (tc_pc = "done" /\ OnGrid(tc_start)) =>
        \A i \in 1..Len(tc_timed) :
            /\ tc_timed[i].duration_minutes % 15 = 0
            /\ tc_timed[i].duration_minutes
                 = ClockDiff(tc_timed[i].start_time, tc_timed[i].end_time)
            /\ tc_timed[i].duration_minutes * 60
                 = tc_timed[i].end_datetime - tc_timed[i].start_datetime

\* a stop whose published duration differs from get_venue_duration's value
C9_Witness ==
    /\ tc_pc = "done" /\ OnGrid(tc_start)
    /\ \E i \in 1..Len(tc_timed) :
          tc_timed[i].duration_minutes # tc_timed[i].raw_duration

(***************************************************************************)
(* time_calculator.py: one optimize_venue_order or apply_travel_optimization*)
(* call on arbitrary input, the local search taken pair by pair.           *)
(***************************************************************************)
\* categories of the stops: known ones and a string that is no category
SqTypes == { "cafe", "restaurant", "bar", "nightclub" }
SqPositions == { 0, 400 }

SqVenueLists ==
    UNION { { [i \in 1..n |-> [id |-> i, venue_type |-> ty[i], pos |-> ps[i]]] :
                ty \in [1..n -> SqTypes], ps \in [1..n -> SqPositions] } :
            n \in 0..MaxOrderLen }

\* start_time: every hour of the day
SqStarts == { At(0, h, 0, 0) : h \in 0..23 }

InitSequencer ==
    /\ sq_pc = "call"
    /\ sq_entry \in {"optimize_venue_order", "apply_travel_optimization"}
    /\ sq_venues \in SqVenueLists
    /\ sq_start \in (IF sq_entry = "optimize_venue_order" THEN SqStarts
                     ELSE { At(0, 0, 0, 0) })
    /\ sq_optimized = << >> /\ sq_i = 0 /\ sq_improved = FALSE
    /\ sq_penalty = << >>
    /\ IdleAsm /\ IdleTc /\ IdlePs /\ IdleRq /\ IdleBk

\* apply_travel_optimization from its entry to the while loop: a list of at
\* most 2 venues is returned as it is
EnterTravelOptimization(venues) ==
    IF Len(venues) <= 2
    THEN sq_optimized' = venues /\ sq_improved' = FALSE /\ sq_pc' = "done"
    ELSE sq_optimized' = venues /\ sq_improved' = TRUE /\ sq_pc' = "while"

\* optimize_venue_order: a list of at most 1 venue is returned as it is;
\* otherwise the venues are sorted by priority score and handed to
\* apply_travel_optimization
OptimizeVenueOrder ==
    /\ sq_pc = "call" /\ sq_entry = "optimize_venue_order"
    /\ IF Len(sq_venues) <= 1
       THEN sq_optimized' = sq_venues /\ sq_improved' = FALSE /\ sq_pc' = "done"
       ELSE EnterTravelOptimization(SortByScore(sq_venues, sq_start))
    /\ UNCHANGED <<sq_entry, sq_venues, sq_start, sq_i, sq_penalty>>
    /\ UNCHANGED <<asmVars, tcVars, psVars, rqVars, bkVars>>

\* apply_travel_optimization called on the list as given
ApplyTravelOptimization ==
    /\ sq_pc = "call" /\ sq_entry = "apply_travel_optimization"
    /\ EnterTravelOptimization(sq_venues)
    /\ UNCHANGED <<sq_entry, sq_venues, sq_start, sq_i, sq_penalty>>
    /\ UNCHANGED <<asmVars, tcVars, psVars, rqVars, bkVars>>

\* "while improved": the next pass starts, or the list is returned
TestImproved ==
    /\ sq_pc = "while"
    /\ IF sq_improved
       THEN sq_improved' = FALSE /\ sq_i' = 0 /\ sq_pc' = "for"
       ELSE sq_improved' = sq_improved /\ sq_i' = sq_i /\ sq_pc' = "done"
    /\ UNCHANGED <<sq_entry, sq_venues, sq_start, sq_optimized, sq_penalty>>
    /\ UNCHANGED <<asmVars, tcVars, psVars, rqVars, bkVars>>

\* one iteration of "for i in range(len(optimized) - 1)": the pair at i and
\* i+1 is examined and swapped when the savings exceed 0.5 km and the penalty
ExaminePair ==
    /\ sq_pc = "for"
    /\ LET first == sq_optimized[sq_i + 1]
           second == sq_optimized[sq_i + 2]
           travel_savings_km == TravelSavings(first, second)
           type_conflict_penalty == calculate_type_conflict_penalty(first, second)
       IN  /\ sq_penalty' = <<first, second, type_conflict_penalty>>
           /\ IF travel_savings_km > 50 /\ travel_savings_km > type_conflict_penalty
              THEN /\ sq_optimized' = [sq_optimized EXCEPT ![sq_i + 1] = second,
                                                          ![sq_i + 2] = first]
                   /\ sq_improved' = TRUE
              ELSE UNCHANGED <<sq_optimized, sq_improved>>
    /\ sq_i' = sq_i + 1
    /\ sq_pc' = IF sq_i + 1 < Len(sq_optimized) - 1 THEN "for" ELSE "while"
    /\ UNCHANGED <<sq_entry, sq_venues, sq_start>>
    /\ UNCHANGED <<asmVars, tcVars, psVars, rqVars, bkVars>>

NextSequencer ==
    \/ OptimizeVenueOrder
    \/ ApplyTravelOptimization
    \/ TestImproved
    \/ ExaminePair

SpecSequencer == InitSequencer /\ [][NextSequencer]_vars

\* the same calls at a single start hour, each running on to its return: a
\* step that can be taken is taken
InitLocalSearch ==
    /\ InitSequencer
    /\ sq_start \in { At(0, 0, 0, 0), At(0, 12, 0, 0) }

SpecLocalSearch ==
    InitLocalSearch /\ [][NextSequencer]_vars /\ WF_vars(NextSequencer)

\* the day-part priority rank of a stop
RankOf(venue) == VENUE_TYPE_PRIORITIES(venue.venue_type)

C17_PenaltyDirection ==
    sq_penalty # << >> =>
        LET first == RankOf(sq_penalty[1])
            second == RankOf(sq_penalty[2])
        IN  sq_penalty[3] = (IF second > first THEN 30 * (second - first) ELSE 0)

\* the categories of a list of stops, in order
TypesOf(venues) == [i \in 1..Len(venues) |-> venues[i].venue_type]

\* C23: for the stops cafe, restaurant and bar, a 19:00 start gives the order
\* restaurant, bar, cafe, a 22:00 start puts the bar first, and a 10:00 start
\* gives cafe, restaurant, bar.
C23_StartHourOrder ==
    (/\ sq_pc = "done" /\ sq_entry = "optimize_venue_order"
     /\ Len(sq_venues) = 3
     /\ SeqToSet(TypesOf(sq_venues)) = {"cafe", "restaurant", "bar"}) =>
        /\ HourOf(sq_start) = 19 =>
              TypesOf(sq_optimized) = <<"restaurant", "bar", "cafe">>
        /\ HourOf(sq_start) = 22 => sq_optimized[1].venue_type = "bar"
        /\ HourOf(sq_start) = 10 =>
              TypesOf(sq_optimized) = <<"cafe", "restaurant", "bar">>

\* C25: apply_travel_optimization never swaps: its list is its input at every
\* step and at its return, so optimize_venue_order returns the sorted list.
C25_OrderUnchanged ==
    /\ (sq_entry = "apply_travel_optimization" /\ sq_pc \in {"while", "for", "done"}) =>
          sq_optimized = sq_venues
    /\ (sq_entry = "optimize_venue_order" /\ sq_pc \in {"while", "for", "done"}) =>
          sq_optimized = SortByScore(sq_venues, sq_start)
    /\ sq_pc = "while" => (sq_improved <=> sq_i = 0)

\* returned by apply_travel_optimization after a pass over restaurant, bar,
\* cafe, each far from the next
C25_Witness ==
    /\ sq_pc = "done" /\ sq_entry = "apply_travel_optimization"
    /\ sq_i = 2
    /\ TypesOf(sq_venues) = <<"restaurant", "bar", "cafe">>
    /\ sq_venues[1].pos # sq_venues[2].pos /\ sq_venues[2].pos # sq_venues[3].pos
    /\ sq_penalty[3] > 0

\* C18: every call of the local search returns.
C18_Terminates == <>(sq_pc = "done")

\* returned after one full pass over three stops that are far apart
C18_Witness ==
    /\ sq_pc = "done" /\ Len(sq_venues) = 3 /\ sq_i = 2
    /\ sq_venues[1].pos # sq_venues[2].pos /\ sq_venues[2].pos # sq_venues[3].pos

(***************************************************************************)
(* personalization.py: PlanningPersonalizationService.                     *)
(* Ratings are tenths of a star.  A component score is a fraction <<p, q>>;*)
(* a venue score is a fraction [num, den].  The arithmetic is exact.       *)
(***************************************************************************)
\* self.weights, in percent
weights(key) ==
    CASE key = "user_rating_history"   -> 40
      [] key = "venue_rating"          -> 25
      [] key = "venue_type_preference" -> 15
      [] key = "price_compatibility"   -> 10
      [] key = "novelty_bonus"         -> 10

\* (rating - 1) / 4, "Normalize 1-5 to 0-1"
Normalize(rating10) == <<rating10 - 10, 40>>

\* Only ratings above 4.0 kept.
FilterAboveFour(user_rating_history) ==
    LET kept == { venue_id \in DOMAIN user_rating_history :
                    user_rating_history[venue_id] > 40 }
    IN  [venue_id \in kept |-> user_rating_history[venue_id]]

\* {venue_id: rating for rating >= 4.0}
filter_highly_rated_venues(user_rating_history) ==
    LET kept == { venue_id \in DOMAIN user_rating_history :
                    user_rating_history[venue_id] >= 40 }
    IN  [venue_id \in kept |-> user_rating_history[venue_id]]

\* venue_id_to_type.get(venue_id): the last type that lists the id, or None
venue_id_to_type(vbt, venue_id) ==
    LET listing == { k \in 1..Len(vbt) :
                        \E j \in 1..Len(vbt[k].venues) :
                            vbt[k].venues[j].id = venue_id }
    IN  IF listing = {} THEN None
        ELSE vbt[CHOOSE k \in listing : \A l \in listing : l <= k].venue_type

RECURSIVE SumRatings(_, _)
SumRatings(user_rating_history, ids) ==
    IF ids = {} THEN 0
    ELSE LET venue_id == CHOOSE x \in ids : TRUE
         IN  user_rating_history[venue_id]
                + SumRatings(user_rating_history, ids \ { venue_id })

\* type -> (average rating of the type's venues in the history - 1) / 4, or
\* 0.5 for a type without a venue in the history
calculate_type_preferences(user_rating_history, vbt) ==
    [venue_type \in SeqToSet(Keys(vbt)) |->
        LET rated == { venue_id \in DOMAIN user_rating_history :
                         venue_id_to_type(vbt, venue_id) = venue_type }
            type_ratings == SumRatings(user_rating_history, rated)
            type_counts == Cardinality(rated)
        IN  IF rated # {}
            THEN <<type_ratings - 10 * type_counts, 40 * type_counts>>
            ELSE <<20, 40>>]

\* price_mapping.get(price, 2)
PriceLevel(price) ==
    CASE price = "$"   -> 1
      [] price = "$$"  -> 2
      [] price = "$$$" -> 3
      [] OTHER         -> 2

\* dict.get(key, "$$") on a price key that may be missing
PriceOrDefault(price) == IF price = "missing" THEN "$$" ELSE price

calculate_price_compatibility(venue, user_preferences) ==
    IF user_preferences.kind \in {"None", "empty"} THEN <<5, 10>>
    ELSE LET venue_level == PriceLevel(PriceOrDefault(venue.price_range))
             preferred_level ==
                PriceLevel(PriceOrDefault(user_preferences.preferred_price_range))
         IN  IF venue_level = preferred_level THEN <<10, 10>>
             ELSE IF Abs(venue_level - preferred_level) = 1 THEN <<7, 10>>
             ELSE <<3, 10>>

\* score * weight over the denominator den (a multiple of 100 * score[2])
Contribution(key, score, den) ==
    weights(key) * score[1] * (den \div (100 * score[2]))

\* The bounded score published on a 0-100 scale.
ClampToPercent(total_score, den) == Min(100 * den, Max(0, 100 * total_score))

\* min(1.0, max(0.0, total_score))
Clamp(total_score, den) == Min(den, Max(0, total_score))

calculate_venue_score(venue, user_rating_history, type_preferences, venue_type, user_preferences) ==
    LET venue_id == venue.id
        rated == venue_id \in DOMAIN user_rating_history
        type_preference ==
            IF venue_type \in DOMAIN type_preferences
            THEN type_preferences[venue_type] ELSE <<20, 40>>
        den == 100 * type_preference[2]
        history_part ==
            IF rated
            THEN Contribution("user_rating_history",
                              Normalize(user_rating_history[venue_id]), den)
            ELSE Contribution("user_rating_history", <<20, 40>>, den)
        \* venue.get("rating", 3.0); None and 0 are falsy
        venue_rating == IF venue.rating_key = "missing" THEN 30 ELSE venue.rating
        truthy == venue.rating_key # "None" /\ venue_rating # 0
        rating_part ==
            IF truthy
            THEN Contribution("venue_rating", Normalize(venue_rating), den)
            ELSE Contribution("venue_rating", <<20, 40>>, den)
        type_part == Contribution("venue_type_preference", type_preference, den)
        price_part ==
            Contribution("price_compatibility",
                         calculate_price_compatibility(venue, user_preferences), den)
        novelty_part ==
            IF ~rated THEN Contribution("novelty_bonus", <<7, 10>>, den)
            ELSE Contribution("novelty_bonus", <<3, 10>>, den)
        total_score ==
            history_part + rating_part + type_part + price_part + novelty_part
    IN  [num |-> Clamp(total_score, den), den |-> den]

\* a.num / a.den <= b.num / b.den
ScoreLeq(a, b) == a.num * b.den <= b.num * a.den

\* scored_venues.sort(key=lambda x: x[1], reverse=True): stable, descending
RECURSIVE InsertScored(_, _)
InsertScored(sorted, entry) ==
    IF sorted = << >> THEN <<entry>>
    ELSE LET last == sorted[Len(sorted)]
         IN  IF ScoreLeq(entry.score, last.score)
             THEN Append(sorted, entry)
             ELSE Append(InsertScored(SubSeq(sorted, 1, Len(sorted) - 1), entry),
                         last)

RECURSIVE SortScored(_)
SortScored(scored_venues) ==
    IF scored_venues = << >> THEN << >>
    ELSE InsertScored(SortScored(SubSeq(scored_venues, 1, Len(scored_venues) - 1)),
                      scored_venues[Len(scored_venues)])

\* Every venue scored against the history as given, not the filtered one.
PersonalizeWithRawHistory(vbt, user_rating_history, user_preferences) ==
    LET highly_rated_history == filter_highly_rated_venues(user_rating_history)
        type_preferences == calculate_type_preferences(highly_rated_history, vbt)
    IN  [k \in 1..Len(vbt) |->
            [venue_type |-> vbt[k].venue_type,
             scored_venues |->
                SortScored([j \in 1..Len(vbt[k].venues) |->
                    [venue |-> vbt[k].venues[j],
                     score |-> calculate_venue_score(vbt[k].venues[j],
                                    user_rating_history, type_preferences,
                                    vbt[k].venue_type, user_preferences)]])]]

personalize_venues(vbt, user_rating_history, user_preferences) ==
    LET highly_rated_history == filter_highly_rated_venues(user_rating_history)
        type_preferences == calculate_type_preferences(highly_rated_history, vbt)
    IN  [k \in 1..Len(vbt) |->
            [venue_type |-> vbt[k].venue_type,
             scored_venues |->
                SortScored([j \in 1..Len(vbt[k].venues) |->
                    [venue |-> vbt[k].venues[j],
                     score |-> calculate_venue_score(vbt[k].venues[j],
                                    highly_rated_history, type_preferences,
                                    vbt[k].venue_type, user_preferences)]])]]

(***************************************************************************)
(* Inputs of the scorer.                                                   *)
(***************************************************************************)
\* venue["rating"]: key missing, None, or a number of tenths in 0..50
PsRatings ==
    { [rating_key |-> "missing", rating |-> 0], [rating_key |-> "None", rating |-> 0] }
        \cup { [rating_key |-> "number", rating |-> r] : r \in {0, 1, 10, 38, 50} }

\* venue["price_range"]: key missing, a known tier, or another string
PsPrices == { "missing", "$", "$$", "$$$", "$$$$" }

PsVenue(id, r, price) ==
    [id |-> id, rating_key |-> r.rating_key, rating |-> r.rating,
     price_range |-> price]

\* two restaurants and a bar; the first restaurant's attributes vary
PsPools ==
    { << [venue_type |-> "restaurant",
          venues |-> << PsVenue(1, r, price),
                        PsVenue(2, [rating_key |-> "number", rating |-> 45], "$$") >>],
         [venue_type |-> "bar",
          venues |-> << PsVenue(3, [rating_key |-> "missing", rating |-> 0],
                                "missing") >>] >> :
        r \in PsRatings, price \in PsPrices }

\* user_rating_history: ratings 1.0 to 5.0 of some of the candidates and of
\* a venue (9) that is not a candidate
PsHistories ==
    UNION { [ids -> {10, 39, 40, 50}] : ids \in SUBSET {1, 2, 9} }

\* user_preferences: None, {}, or a dict whose preferred_price_range is
\* missing, a known tier, or another string
PsPreferences ==
    { [kind |-> "None", preferred_price_range |-> "missing"],
      [kind |-> "empty", preferred_price_range |-> "missing"] }
        \cup { [kind |-> "dict", preferred_price_range |-> price] :
                  price \in {"missing", "$", "$$$", "free"} }

(***************************************************************************)
(* personalization.py: one call of personalize_venues or of                *)
(* _calculate_venue_score on arbitrary input.                              *)
(***************************************************************************)
InitScorer ==
    /\ ps_pc = "start"
    /\ ps_venues_by_type \in PsPools
    /\ ps_history \in PsHistories
    /\ ps_prefs \in PsPreferences
    /\ ps_type_preferences = << >>
    /\ ps_scores = << >>
    /\ IdleAsm /\ IdleTc /\ IdleSq /\ IdleRq /\ IdleBk

\* personalize_venues: the history is filtered, the type preferences are
\* computed from it, every venue is scored and every list is sorted
PersonalizeVenues ==
    /\ ps_pc = "start"
    /\ ps_scores' = personalize_venues(ps_venues_by_type, ps_history, ps_prefs)
    /\ ps_type_preferences' =
          calculate_type_preferences(filter_highly_rated_venues(ps_history),
                                     ps_venues_by_type)
    /\ ps_pc' = "personalized"
    /\ UNCHANGED <<ps_venues_by_type, ps_history, ps_prefs>>
    /\ UNCHANGED <<asmVars, tcVars, sqVars, rqVars, bkVars>>

\* _calculate_venue_score called on one venue with the history as given and
\* with the type preferences of that history or with none
CalculateVenueScore ==
    /\ ps_pc = "start"
    /\ \E k \in 1..Len(ps_venues_by_type) :
       \E j \in 1..Len(ps_venues_by_type[k].venues) :
       \E type_preferences \in
            { calculate_type_preferences(ps_history, ps_venues_by_type), << >> } :
          /\ ps_type_preferences' = type_preferences
          /\ ps_scores' =
            << [venue_type |-> ps_venues_by_type[k].venue_type,
                scored_venues |->
                    << [venue |-> ps_venues_by_type[k].venues[j],
                        score |-> calculate_venue_score(
                                    ps_venues_by_type[k].venues[j], ps_history,
                                    type_preferences,
                                    ps_venues_by_type[k].venue_type, ps_prefs)] >>] >>
    /\ ps_pc' = "scored"
    /\ UNCHANGED <<ps_venues_by_type, ps_history, ps_prefs>>
    /\ UNCHANGED <<asmVars, tcVars, sqVars, rqVars, bkVars>>

\* _calculate_price_compatibility called on one venue; the value returned
\* is kept as that venue's score
CalculatePriceCompatibility ==
    /\ ps_pc = "start"
    /\ \E k \in 1..Len(ps_venues_by_type) :
       \E j \in 1..Len(ps_venues_by_type[k].venues) :
          LET price_score ==
                calculate_price_compatibility(ps_venues_by_type[k].venues[j], ps_prefs)
          IN  ps_scores' =
                << [venue_type |-> ps_venues_by_type[k].venue_type,
                    scored_venues |->
                        << [venue |-> ps_venues_by_type[k].venues[j],
                            score |-> [num |-> price_score[1],
                                       den |-> price_score[2]]] >>] >>
    /\ ps_pc' = "priced"
    /\ UNCHANGED <<ps_venues_by_type, ps_history, ps_prefs, ps_type_preferences>>
    /\ UNCHANGED <<asmVars, tcVars, sqVars, rqVars, bkVars>>

NextScorer ==
    \/ PersonalizeVenues
    \/ CalculateVenueScore
    \/ CalculatePriceCompatibility

SpecScorer == InitScorer /\ [][NextScorer]_vars

\* the ids of the candidates listed under category k
IdsOfType(vbt, k) == { vbt[k].venues[j].id : j \in 1..Len(vbt[k].venues) }

\* C11: in personalize_venues, a category's preference is the average of the
\* history ratings of at least 4.0 given to its venues, normalised from 1-5
\* to 0-1; a rating of 3.9 (or lower) counts for nothing, and a category
\* with no rating of at least 4.0 gets the neutral 0.5.
C11_FilteringRule ==
    ps_pc = "personalized" =>
        \A k \in 1..Len(ps_venues_by_type) :
            LET counted == { id \in DOMAIN ps_history \cap IdsOfType(ps_venues_by_type, k) :
                               ps_history[id] >= 40 }
                n == Cardinality(counted)
                pref == ps_type_preferences[ps_venues_by_type[k].venue_type]
            IN  IF counted = {}
                THEN pref[1] * 2 = pref[2]
                ELSE pref[1] * (40 * n)
                        = (SumRatings(ps_history, counted) - 10 * n) * pref[2]

\* personalized: one restaurant rated 3.9 and the other 4.0 give the
\* restaurants the preference 0.75, the average of the 4.0 alone
C11_Witness ==
    /\ ps_pc = "personalized"
    /\ 1 \in DOMAIN ps_history /\ 2 \in DOMAIN ps_history
    /\ ps_history[1] = 39 /\ ps_history[2] = 40
    /\ ps_type_preferences["restaurant"][1] * 4
          = 3 * ps_type_preferences["restaurant"][2]

\* the entries of a history with a rating of at least 4.0
HighPart(h) == { <<id, h[id]>> : id \in { x \in DOMAIN h : h[x] >= 40 } }

\* C12: a history that differs from the one given only in entries rated
\* below 4.0 makes personalize_venues return the same scores in the same
\* per-category order.
C12_LowRatingsIgnored ==
    ps_pc = "personalized" =>
        \A h2 \in PsHistories :
            HighPart(h2) = HighPart(ps_history) =>
                personalize_venues(ps_venues_by_type, h2, ps_prefs) = ps_scores

\* personalized: the user rated restaurant 1 below 4.0 and restaurant 2 at
\* least 4.0
C12_Witness ==
    /\ ps_pc = "personalized"
    /\ 1 \in DOMAIN ps_history /\ 2 \in DOMAIN ps_history
    /\ ps_history[1] < 40 /\ ps_history[2] >= 40

\* the three price tiers, low to high
TierRank(price) == CASE price = "$" -> 1 [] price = "$$" -> 2 [] price = "$$$" -> 3

KnownTiers == { "$", "$$", "$$$" }

\* C13: for a venue of a known tier, the price component is 1.0 when the
\* tier equals the preferred tier, 0.7 when the two are adjacent, 0.3 when
\* they are two apart, and 0.5 when no preferred tier is stated: no
\* preference record, an empty one, or one without a price tier.
C13_PriceCompatibility ==
    ps_pc = "priced" =>
        LET venue == ps_scores[1].scored_venues[1].venue
            value == ps_scores[1].scored_venues[1].score
            tenths == (value.num * 10) \div value.den
            stated == ps_prefs.kind = "dict"
                        /\ ps_prefs.preferred_price_range \in KnownTiers
            unstated == ps_prefs.kind \in {"None", "empty"}
                        \/ ps_prefs.preferred_price_range = "missing"
            gap == Abs(TierRank(venue.price_range)
                        - TierRank(ps_prefs.preferred_price_range))
        IN  venue.price_range \in KnownTiers =>
                /\ unstated => tenths = 5
                /\ stated =>
                      tenths = (CASE gap = 0 -> 10 [] gap = 1 -> 7 [] gap = 2 -> 3)

\* C10: every score returned by _calculate_venue_score lies in [0, 1],
\* whatever the venue's rating and price tier, the rating history and the
\* preference record.
C10_ScoreBounds ==
    \A k \in 1..Len(ps_scores) : \A j \in 1..Len(ps_scores[k].scored_venues) :
        LET score == ps_scores[k].scored_venues[j].score
        IN  0 <= score.num /\ score.num <= score.den

\* scored directly: a venue without a rating key, an empty history and no
\* preference record give 0.52
C10_Witness ==
    /\ ps_pc = "scored"
    /\ DOMAIN ps_history = {} /\ ps_prefs.kind = "None"
    /\ ps_scores[1].scored_venues[1].venue.rating_key = "missing"
    /\ ps_scores[1].scored_venues[1].score.num * 100
          = 52 * ps_scores[1].scored_venues[1].score.den

(***************************************************************************)
(* booking_service.py: BookingService.  A time of day "HH:00" is kept as   *)
(* its hour; the hours string "HH:00-HH:00" of a slot as the pair of its   *)
(* two hours.                                                              *)
(***************************************************************************)
\* the while loop of generate_time_slots from current_hour on
RECURSIVE SlotsFrom(_, _, _)
SlotsFrom(current_hour, end_hour, default_counter) ==
    IF current_hour < end_hour
    THEN LET slot_start == current_hour % 24
             slot_end == IF current_hour + 2 <= end_hour
                         THEN (current_hour + 2) % 24
                         ELSE end_hour % 24
         IN  << [hours |-> <<slot_start, slot_end>>, counter |-> default_counter] >>
                 \o SlotsFrom(current_hour + 2, end_hour, default_counter)
    ELSE << >>

\* generate_time_slots(start_time, end_time, default_counter): a closing hour
\* below the opening hour is the next day's
generate_time_slots(start_hour, end_hour, default_counter) ==
    SlotsFrom(start_hour,
              IF end_hour < start_hour THEN end_hour + 24 ELSE end_hour,
              default_counter)

\* slot_start < req_end and req_start < slot_end, all four parsed with
\* strptime("%H:%M"), that is as times of one and the same day
Overlaps(slot_hours, req_hours) ==
    slot_hours[1] < req_hours[2] /\ req_hours[1] < slot_hours[2]

\* indices of the overlapping_slots of a request
overlapping_slots(time_slots, req_hours) ==
    { i \in 1..Len(time_slots) : Overlaps(time_slots[i].hours, req_hours) }

BkClients == 1..2

\* opening and closing hours of the venue: closing in the afternoon, in the
\* evening, at midnight and after midnight
BkOpeningHours == { <<10, 14>>, <<9, 18>>, <<18, 0>>, <<19, 1>>, <<22, 22>> }

InitBooking ==
    /\ \E oh \in BkOpeningHours : \E default_counter \in 1..MaxCounter :
          db_slots = generate_time_slots(oh[1], oh[2], default_counter)
    /\ bk_initial = db_slots
    /\ bk_pc = [c \in BkClients |-> "call"]
    /\ bk_method \in [BkClients -> {"make_booking", "make_booking_by_google_place_id"}]
    /\ bk_req \in [BkClients -> { db_slots[i].hours : i \in 1..Len(db_slots) }
                                  \cup { <<12, 13>> }]
    /\ bk_venue = [c \in BkClients |-> << >>]
    /\ bk_result = [c \in BkClients |-> [status |-> "none", reserved_slots |-> {}]]
    /\ IdleAsm /\ IdleTc /\ IdleSq /\ IdlePs /\ IdleRq

\* venue = await venues_collection.find_one(...)
FindOne(c) ==
    /\ bk_pc[c] = "call"
    /\ bk_venue' = [bk_venue EXCEPT ![c] = db_slots]
    /\ bk_pc' = [bk_pc EXCEPT ![c] = "found"]
    /\ UNCHANGED <<db_slots, bk_initial, bk_method, bk_req, bk_result>>
    /\ UNCHANGED <<asmVars, tcVars, sqVars, psVars, rqVars>>

\* the rest of the call: the overlapping slots of the venue as it was read
\* are checked and decremented, the whole time_slots list is written back
\* with update_one($set), and modified_count decides the answer
BookOverlapping(c) ==
    /\ bk_pc[c] = "found"
    /\ LET overlapping == overlapping_slots(bk_venue[c], bk_req[c])
           decremented ==
               [i \in 1..Len(bk_venue[c]) |->
                   IF i \in overlapping
                   THEN [bk_venue[c][i] EXCEPT !.counter = @ - 1]
                   ELSE bk_venue[c][i]]
       IN  IF overlapping = {}
           THEN /\ bk_result' = [bk_result EXCEPT ![c] =
                      [status |-> "No overlapping time slots found",
                       reserved_slots |-> {}]]
                /\ UNCHANGED <<db_slots, bk_venue>>
           ELSE IF \E i \in overlapping : ~(bk_venue[c][i].counter > 0)
           THEN /\ bk_result' = [bk_result EXCEPT ![c] =
                      [status |-> "fully booked", reserved_slots |-> {}]]
                /\ UNCHANGED <<db_slots, bk_venue>>
           ELSE /\ bk_venue' = [bk_venue EXCEPT ![c] = decremented]
                /\ db_slots' = decremented
                /\ bk_result' = [bk_result EXCEPT ![c] =
                      IF db_slots = decremented      \* modified_count == 0
                      THEN [status |-> "Failed to update venue availability",
                            reserved_slots |-> {}]
                      ELSE [status |-> "success", reserved_slots |-> overlapping]]
    /\ bk_pc' = [bk_pc EXCEPT ![c] = "done"]
    /\ UNCHANGED <<bk_initial, bk_method, bk_req>>
    /\ UNCHANGED <<asmVars, tcVars, sqVars, psVars, rqVars>>

NextBooking ==
    \E c \in BkClients :
        \/ FindOne(c)
        \/ BookOverlapping(c)

SpecBooking == InitBooking /\ [][NextBooking]_vars

\* C29: every slot counter stays >= 0, and once all bookings have returned
\* each slot has lost exactly as many places as there are successful
\* bookings that reserved it.
C29_NoLostDecrement ==
    /\ \A i \in 1..Len(db_slots) : db_slots[i].counter >= 0
    /\ (\A c \in DOMAIN bk_pc : bk_pc[c] = "done") =>
          \A i \in 1..Len(db_slots) :
              bk_initial[i].counter - db_slots[i].counter =
                  Cardinality({ c \in DOMAIN bk_pc :
                                  /\ bk_result[c].status = "success"
                                  /\ i \in bk_result[c].reserved_slots })

\* C30: a booking of the hours of a generated slot, made while no other
\* booking is under way, is matched to that slot, succeeds and takes one
\* place from it.
C30_GeneratedSlotsBookable ==
    \A c \in DOMAIN bk_pc :
        \A i \in 1..Len(bk_initial) :
            (/\ bk_pc[c] = "done"
             /\ \A o \in DOMAIN bk_pc \ {c} : bk_pc[o] = "call"
             /\ bk_req[c] = bk_initial[i].hours) =>
                /\ bk_result[c].status = "success"
                /\ i \in bk_result[c].reserved_slots
                /\ db_slots[i].counter = bk_initial[i].counter - 1

====
